---- MODULE Spec2Model ----
(***************************************************************************)
(* The v2 HSM proxy of src/src/v1/HSMProxy.js (lines 1290-1988): the key   *)
(* lifecycle of one HSMProxy instance, its persisted configuration record  *)
(* and the hardware security module it talks to.                           *)
(*                                                                         *)
(* Every public method is an async function.  A call runs without          *)
(* interruption up to its next await (configurator.load, configurator.     *)
(* store, configurator.delete, processRequest) and the proxy has no lock,  *)
(* so a second call may start while the first one is suspended.  Each      *)
(* action below is one such uninterrupted segment.                         *)
(***************************************************************************)
EXTENDS Integers, Naturals, FiniteSets, Sequences, Bags, TLC

VARIABLES
    disk,           \* the record kept by the configurator (the file HSMProxyv2.bali)
    configuration,  \* the closure variable `configuration`
    controller,     \* the closure variable `controller`: its current state
    calls,          \* the calls suspended at an await (a bag: calls carry no identity)
    hsm,            \* the secrets the HSM's current and previous key pairs are bound to
    nextKey,        \* how many secrets crypto.randomBytes has produced
    nextTag,        \* how many tags bali.tag() has produced
    ret,            \* the most recent completion of a call, as its caller sees it
    superseded,     \* history: secrets sent as the previous key of an answered rotateKeys
    spent,          \* history: superseded secrets an answered signBytes has carried
    respent,        \* history: superseded secrets a second answered signBytes has carried
    broken,         \* history: a store after an answered request failed, no erase since
    solo,           \* history: the call in flight started alone and is still alone
    before,         \* history: the record on disk when that call was made
    mon,            \* history: the rotate, sign, sign sequence in progress
    erased,         \* history: an eraseKeys has returned, no generateKeys since
    tags,           \* history: the tags getTag has returned
    sig,            \* history: the keys returned last and the signatures made since
    pending,        \* the (type, args) tuples formatRequest is still to be called with
    formatted,      \* the calls of formatRequest made: type, args and the request returned
    req,            \* the activation of processRequest
    api             \* the singleton returned by exports.api (lines 802-1270)

\* the part of the state that belongs to formatRequest and processRequest,
\* and the singleton: what no method of the v2 proxy touches
wire == <<pending, formatted, req, api>>

vars == <<disk, configuration, controller, calls, hsm, nextKey, nextTag, ret,
          superseded, spent, respent, broken, solo, before, mon, erased, tags,
          sig, pending, formatted, req, api>>

(***************************************************************************)
(* Bounds of the model.                                                    *)
(***************************************************************************)
MaxKeys == 2
MaxTags == 2
MaxCalls == 2

(***************************************************************************)
(* Values.                                                                 *)
(***************************************************************************)
\* what getValue and removeValue return for an attribute that is not there
Absent == 0

Keys == 1..MaxKeys
Tags == 1..MaxTags

\* no configuration: no file on disk, `configuration` undefined
NoRecord == [tag |-> Absent, state |-> "undefined",
             proxyKey |-> Absent, previousProxyKey |-> Absent]

\* the catalog created on first use
FreshRecord(t) == [tag |-> t, state |-> "keyless",
                   proxyKey |-> Absent, previousProxyKey |-> Absent]

States == {"keyless", "loneKey", "twoKeys"}

StateBearing == {"generateKeys", "rotateKeys", "signBytes", "eraseKeys"}
Loading == {"getTag", "generateKeys", "rotateKeys", "signBytes"}
Ops == Loading \cup {"eraseKeys"}

\* the methods that only format a request and hand it to processRequest
Stateless == {"digestBytes", "validSignature"}

\* a table that would also let generateKeys run in loneKey
STATES_Loose == [keyless |-> <<"loneKey", "undefined", "undefined">>,
                 loneKey |-> <<"twoKeys", "loneKey", "twoKeys">>,
                 twoKeys |-> <<"undefined", "loneKey", "undefined">>]

\* the finite state machine handed to bali.controller
REQUESTS == <<"generateKeys", "signBytes", "rotateKeys">>
STATES == [keyless |-> <<"loneKey", "undefined", "undefined">>,
           loneKey |-> <<"undefined", "loneKey", "twoKeys">>,
           twoKeys |-> <<"undefined", "loneKey", "undefined">>]

IndexOf(event) == CHOOSE i \in 1..Len(REQUESTS) : REQUESTS[i] = event

\* the state the table allows after `event` in `state`, or "undefined"
NextStateOf(state, event) == STATES[state][IndexOf(event)]

\* a controller that would accept every event
validateEventLax(ctl, event) ==
    IF ctl = "undefined" THEN "typeError" ELSE "ok"

\* controller.validateEvent(event): "ok", or how the call fails
validateEvent(ctl, event) ==
    IF ctl = "undefined" THEN "typeError"
    ELSE IF NextStateOf(ctl, event) = "undefined" THEN "invalidEvent"
    ELSE "ok"

\* a call in flight: the method, the await it is suspended at, its local
\* proxyKey and previousProxyKey, the text handed to configurator.store, the
\* response processRequest has returned to it, and (for the properties) the
\* $proxyKey of the configuration when it was checked
NoCall == [op |-> "none", pc |-> "none", key |-> Absent, prev |-> Absent,
           content |-> NoRecord, was |-> Absent, reply |-> "none"]

Call(op, pc) == [NoCall EXCEPT !.op = op, !.pc = pc]

\* what the caller sees when a call ends: the method, how it ended, the tag it
\* returned, the call's local proxyKey and previousProxyKey, the $proxyKey it
\* was checked with, the response it got from processRequest, whether no other
\* call ran during this one and, if so, the record on disk when it was made.
\* NoReturn: no call ended in the last step.
NoReturn == [op |-> "none", res |-> "none", tag |-> Absent, key |-> Absent,
             prev |-> Absent, was |-> Absent, reply |-> "none", alone |-> FALSE,
             before |-> NoRecord]

Return(c, res, tag, alone) ==
    [op |-> c.op, res |-> res, tag |-> tag, key |-> c.key, prev |-> c.prev,
     was |-> c.was, reply |-> c.reply, alone |-> alone,
     before |-> IF ~alone THEN NoRecord ELSE IF c.pc = "start" THEN disk ELSE before]

NoMon == [stage |-> 0, pre |-> Absent, post |-> Absent,
          sent1 |-> Absent, clean1 |-> FALSE, sent2 |-> Absent]

InFlight == BagToSet(calls)
Without(c) == calls (-) SetToBag({c})
With(c) == calls (+) SetToBag({c})


\* processRequest has not been called
NoRun ==
    [pc |-> "idle", after |-> "none", request |-> << >>, tryAgain |-> 0,
     attempt |-> 0, failed |-> 0, peripheral |-> 0, found |-> 0,
     input |-> 0, output |-> 0, block |-> 0, written |-> << >>,
     links |-> {}, heard |-> 0, last |-> << >>,
     response |-> [attempt |-> 0, block |-> 0, bytes |-> << >>],
     result |-> "none", timers |-> {}, scan |-> 0, released |-> << >>]

\* the singleton as exports.api returns it: no secret, no previous secret,
\* initializeAPI not yet run, no call in flight
NoApi ==
    [secret |-> Absent, previousSecret |-> Absent, ready |-> FALSE, made |-> 0,
     calls |-> EmptyBag, ret |-> [op |-> "none", res |-> "none", key |-> Absent],
     erased |-> FALSE]

\* no public key has been returned
NoSig == [pub |-> Absent, old |-> Absent, count |-> 0, last |-> Absent]

\* crypto.randomBytes and bali.tag() can still produce a new value
HasKey(op, ctl) ==
    (op \in {"generateKeys", "rotateKeys"} /\ validateEvent(ctl, op) = "ok")
        => nextKey < MaxKeys
HasTag == nextTag < MaxTags

(***************************************************************************)
(* The hardware security module.  It is reached only through               *)
(* processRequest; it acts on exactly the requests it answers.  It keeps   *)
(* the current key pair, and after a rotation the previous key pair until  *)
(* the next signature; `hsm` records the secret each pair was created with.*)
(***************************************************************************)
NoKeys == [key |-> Absent, prev |-> Absent]

HsmAct(h, c) ==
    CASE c.op = "generateKeys" -> [key |-> c.key, prev |-> Absent]
      [] c.op = "rotateKeys"   -> [key |-> c.key, prev |-> h.key]
      [] c.op = "signBytes"    -> [h EXCEPT !.prev = Absent]
      [] c.op = "eraseKeys"    -> NoKeys
      [] OTHER                 -> h

(***************************************************************************)
(* The segment of a call from its state check to its first processRequest. *)
(* An outcome is the configuration the segment leaves in memory and either *)
(* the suspended call (res = "none") or the way the call ended.            *)
(***************************************************************************)
Ended(cfg, res) ==
    [cfg |-> cfg, call |-> NoCall, res |-> res, fresh |-> FALSE]

Suspended(cfg, call, fresh) ==
    [cfg |-> cfg, call |-> call, res |-> "none", fresh |-> fresh]

\* getTag: return configuration.getValue('$tag')
BeginGetTag(cfg) == Ended(cfg, "ok")

\* generateKeys up to `await processRequest(request)`
BeginGenerate(cfg, ctl, k) ==
    IF validateEvent(ctl, "generateKeys") # "ok"
    THEN Ended(cfg, validateEvent(ctl, "generateKeys"))
    ELSE Suspended(cfg,
                   [Call("generateKeys", "exchange") EXCEPT !.key = k, !.was = cfg.proxyKey],
                   TRUE)

\* rotateKeys up to `await processRequest(request)`: the current proxy key is
\* copied into $previousProxyKey before the request is sent
BeginRotate(cfg, ctl, k) ==
    IF validateEvent(ctl, "rotateKeys") # "ok"
    THEN Ended(cfg, validateEvent(ctl, "rotateKeys"))
    ELSE IF cfg.proxyKey = Absent
    THEN Ended(cfg, "typeError")
    ELSE Suspended([cfg EXCEPT !.previousProxyKey = cfg.proxyKey],
                   [Call("rotateKeys", "exchange") EXCEPT
                        !.key = k, !.prev = cfg.proxyKey, !.was = cfg.proxyKey],
                   TRUE)

\* a signBytes that would always send the current proxy key
SignKeyCurrent(cfg) == cfg.proxyKey

\* the secret signBytes sends: the previous proxy key when there is one
SignKey(cfg) ==
    IF cfg.previousProxyKey # Absent THEN cfg.previousProxyKey ELSE cfg.proxyKey

\* signBytes up to `await processRequest(request)`: removeValue takes the
\* previous proxy key out of the configuration before the request is sent
BeginSign(cfg, ctl) ==
    IF validateEvent(ctl, "signBytes") # "ok"
    THEN Ended(cfg, validateEvent(ctl, "signBytes"))
    ELSE IF SignKey(cfg) = Absent
    THEN Ended([cfg EXCEPT !.previousProxyKey = Absent], "typeError")
    ELSE Suspended([cfg EXCEPT !.previousProxyKey = Absent],
                   [Call("signBytes", "exchange") EXCEPT
                        !.key = SignKey(cfg), !.was = cfg.proxyKey],
                   FALSE)

Begin(op, cfg, ctl, k) ==
    CASE op = "getTag"       -> BeginGetTag(cfg)
      [] op = "generateKeys" -> BeginGenerate(cfg, ctl, k)
      [] op = "rotateKeys"   -> BeginRotate(cfg, ctl, k)
      [] op = "signBytes"    -> BeginSign(cfg, ctl)

(***************************************************************************)
(* The segment of a call from the response of processRequest to its        *)
(* storeConfiguration.  res = "none": the call is suspended in the store   *)
(* of `content`.                                                           *)
(***************************************************************************)
\* a method that would return its response without storing the configuration
Unstored(cfg, ctl) == [cfg |-> cfg, ctl |-> ctl, res |-> "ok", content |-> NoRecord]

Stopped(cfg, ctl, res) == [cfg |-> cfg, ctl |-> ctl, res |-> res, content |-> NoRecord]
Storing(cfg, ctl) == [cfg |-> cfg, ctl |-> ctl, res |-> "none", content |-> cfg]

\* controller.transitionState(event) followed by configuration.setValue('$state', state)
Transition(cfg, ctl, event) ==
    IF validateEvent(ctl, event) # "ok"
    THEN Stopped(cfg, ctl, validateEvent(ctl, event))
    ELSE IF cfg = NoRecord
    THEN Stopped(cfg, NextStateOf(ctl, event), "typeError")
    ELSE Storing([cfg EXCEPT !.state = NextStateOf(ctl, event)], NextStateOf(ctl, event))

\* generateKeys and rotateKeys: configuration.setValue('$proxyKey', proxyKey) comes first
AfterNewKey(cfg, ctl, c) ==
    IF cfg = NoRecord
    THEN Stopped(cfg, ctl, "typeError")
    ELSE Transition([cfg EXCEPT !.proxyKey = c.key], ctl, c.op)

AfterSign(cfg, ctl, c) == Transition(cfg, ctl, "signBytes")

\* a digestBytes or validSignature that would count as a signature
AfterStatelessCounted(cfg, ctl, c) == Transition(cfg, ctl, "signBytes")

\* digestBytes and validSignature return what processRequest has returned
AfterStateless(cfg, ctl, c) == Stopped(cfg, ctl, "ok")

After(cfg, ctl, c) ==
    IF c.op \in Stateless THEN AfterStateless(cfg, ctl, c)
    ELSE IF c.op = "signBytes" THEN AfterSign(cfg, ctl, c)
    ELSE AfterNewKey(cfg, ctl, c)


(***************************************************************************)
(* History of the last calls, kept for the properties only: a rotateKeys   *)
(* that returned, then a signBytes that returned, then a second one, with  *)
(* no other key operation started or ended in between.                     *)
(***************************************************************************)
MonAfter(c, res, counted, d, cfg) ==
    IF c.op \notin StateBearing THEN mon
    ELSE IF ~counted \/ res # "ok" THEN NoMon
    ELSE IF c.op = "rotateKeys"
    THEN [NoMon EXCEPT !.stage = 1, !.pre = c.prev, !.post = c.key]
    ELSE IF c.op = "signBytes" /\ mon.stage = 1
    THEN [mon EXCEPT !.stage = 2, !.sent1 = c.key,
                     !.clean1 = /\ d.previousProxyKey = Absent
                                /\ d.state = "loneKey"
                                /\ cfg.previousProxyKey = Absent
                                /\ cfg.state = "loneKey"]
    ELSE IF c.op = "signBytes" /\ mon.stage = 2
    THEN [mon EXCEPT !.stage = 3, !.sent2 = c.key]
    ELSE NoMon

\* the call c ends: its caller gets the result
Finish(c, res, tag, rest, alone, d, cfg) ==
    /\ calls' = rest
    /\ ret' = Return(c, res, tag, alone /\ rest = EmptyBag)
    /\ mon' = MonAfter(c, res, alone /\ rest = EmptyBag, d, cfg)

\* the call c goes on once its configuration is there, with outcome o
Resume(c, o, rest, alone, d) ==
    /\ configuration' = o.cfg
    /\ nextKey' = IF o.fresh THEN nextKey + 1 ELSE nextKey
    /\ IF o.res = "none"
       THEN /\ calls' = rest (+) SetToBag({o.call})
            /\ ret' = NoReturn
            /\ mon' = IF c.op \in StateBearing /\ ~alone THEN NoMon ELSE mon
       ELSE Finish(c, o.res, o.cfg.tag, rest, alone, d, o.cfg)

\* the keys returned and the signatures made, once key operation c has
\* returned its response: generateKeys and rotateKeys return a public key,
\* signBytes a signature, the first or a later one since that key
SigAfter(c) ==
    CASE c.op = "generateKeys" -> [NoSig EXCEPT !.pub = c.key]
      [] c.op = "rotateKeys"   -> [NoSig EXCEPT !.pub = c.key, !.old = sig.pub]
      [] c.op = "signBytes"    -> [sig EXCEPT !.count = IF @ = 0 THEN 1 ELSE 2,
                                              !.last = c.key]
      [] OTHER                 -> sig

\* the tags callers have got from getTag, after this step
Seen ==
    tags' = IF ret'.op = "getTag" /\ ret'.res = "ok" THEN tags \cup {ret'.tag} ELSE tags

(***************************************************************************)
(* The actions.                                                            *)
(***************************************************************************)
\* the proxy as its constructor leaves it, on a directory without a record
Constructed ==
    /\ disk = NoRecord
    /\ configuration = NoRecord
    /\ controller = "undefined"
    /\ calls = EmptyBag
    /\ hsm = NoKeys
    /\ nextKey = 0
    /\ nextTag = 0
    /\ ret = NoReturn
    /\ superseded = {}
    /\ spent = {}
    /\ respent = {}
    /\ broken = FALSE
    /\ solo = TRUE
    /\ before = NoRecord
    /\ mon = NoMon
    /\ erased = FALSE
    /\ tags = {}
    /\ sig = NoSig

Init ==
    /\ Constructed
    /\ pending = << >>
    /\ formatted = << >>
    /\ req = NoRun
    /\ api = NoApi

\* a caller invokes a method; it runs up to its first await
Start(op) ==
    /\ BagCardinality(calls) < MaxCalls
    /\ configuration # NoRecord => HasKey(op, controller)
    /\ solo' = (calls = EmptyBag)
    /\ before' = IF calls = EmptyBag THEN disk ELSE NoRecord
    /\ IF op \in {"eraseKeys"} \cup Stateless
       THEN /\ calls' = With(Call(op, "exchange"))
            /\ mon' = IF op \in Stateless \/ calls = EmptyBag THEN mon ELSE NoMon
            /\ ret' = NoReturn
            /\ UNCHANGED <<configuration, controller, nextKey>>
       ELSE IF configuration = NoRecord
       THEN /\ calls' = With(Call(op, "loading"))
            /\ mon' = IF op \in StateBearing /\ calls # EmptyBag THEN NoMon ELSE mon
            /\ ret' = NoReturn
            /\ UNCHANGED <<configuration, controller, nextKey>>
       ELSE /\ Resume(Call(op, "start"),
                      Begin(op, configuration, controller, nextKey + 1),
                      calls, calls = EmptyBag, disk)
            /\ UNCHANGED controller
    /\ Seen
    /\ UNCHANGED <<disk, hsm, nextTag, superseded, spent, respent, broken, erased, sig>>
    /\ UNCHANGED wire

\* configurator.load() returns the record, or nothing when there is no file
LoadOk(c) ==
    /\ c.pc = "loading"
    /\ IF disk # NoRecord
       THEN /\ HasKey(c.op, disk.state)
            /\ controller' = disk.state
            /\ Resume(c, Begin(c.op, disk, disk.state, nextKey + 1), Without(c),
                      solo, disk)
            /\ UNCHANGED nextTag
       ELSE /\ HasTag
            /\ configuration' = FreshRecord(nextTag + 1)
            /\ nextTag' = nextTag + 1
            /\ calls' = Without(c) (+) SetToBag({[c EXCEPT !.pc = "bootstrap",
                                                   !.content = FreshRecord(nextTag + 1)]})
            /\ ret' = NoReturn
            /\ UNCHANGED <<controller, nextKey, mon>>
    /\ Seen
    /\ UNCHANGED <<disk, hsm, superseded, spent, respent, broken, solo, before, erased, sig>>
    /\ UNCHANGED wire

\* configurator.load() throws
LoadFail(c) ==
    /\ c.pc = "loading"
    /\ Finish(c, "storageException", Absent, Without(c), solo, disk, configuration)
    /\ UNCHANGED <<disk, configuration, controller, hsm, nextKey, nextTag,
                   superseded, spent, respent, broken, solo, before, erased, tags, sig>>
    /\ UNCHANGED wire

\* the store of the record created on first use returns; the controller is made
BootstrapOk(c) ==
    /\ c.pc = "bootstrap"
    /\ disk' = c.content
    /\ IF configuration = NoRecord
       THEN /\ Finish(c, "storageException", Absent, Without(c), solo, c.content,
                      configuration)
            /\ UNCHANGED <<configuration, controller, nextKey>>
       ELSE /\ HasKey(c.op, configuration.state)
            /\ controller' = configuration.state
            /\ Resume(c, Begin(c.op, configuration, configuration.state, nextKey + 1),
                      Without(c), solo, c.content)
    /\ Seen
    /\ UNCHANGED <<hsm, nextTag, superseded, spent, respent, broken, solo, before, erased, sig>>
    /\ UNCHANGED wire

\* the store of the record created on first use throws
BootstrapFail(c) ==
    /\ c.pc = "bootstrap"
    /\ Finish(c, "storageException", Absent, Without(c), solo, disk, configuration)
    /\ UNCHANGED <<disk, configuration, controller, hsm, nextKey, nextTag,
                   superseded, spent, respent, broken, solo, before, erased, tags, sig>>
    /\ UNCHANGED wire

\* a response as processBlock resolves it: a one-byte status, 0x00 or 0x01
\* (a one-byte response above 1 is rejected), or more bytes than one
StatusBytes == {"0x00", "0x01"}

\* the responses the HSM may give to the request of c.  w = "reply": every
\* response processBlock lets through, eraseKeys being answered with a status;
\* otherwise the response is not looked at: the bytes asked for
Replies(c, w) ==
    IF w # "reply" THEN {"bytes"}
    ELSE IF c.op = "eraseKeys" THEN StatusBytes
    ELSE StatusBytes \cup {"bytes"}

\* processRequest returns the HSM's response b.  w names the history that is
\* recorded: the HSM's keys ("hsm"), the use of superseded secrets ("history"),
\* the response ("reply").
ExchangeOk(c, w) ==
    /\ c.pc = "exchange"
    /\ hsm' = IF w = "hsm" THEN HsmAct(hsm, c) ELSE hsm
    /\ IF w = "history"
       THEN /\ superseded' = IF c.op = "rotateKeys" THEN superseded \cup {c.prev}
                                                     ELSE superseded
            /\ spent' = IF c.op = "signBytes" /\ c.key \in superseded
                        THEN spent \cup {c.key} ELSE spent
            /\ respent' = IF c.op = "signBytes" /\ c.key \in spent
                          THEN respent \cup {c.key} ELSE respent
       ELSE UNCHANGED <<superseded, spent, respent>>
    /\ \E b \in Replies(c, w) :
       IF c.op = "eraseKeys"
       THEN /\ calls' = Without(c) (+) SetToBag({[c EXCEPT !.pc = "deleting",
                                                           !.reply = b]})
            /\ ret' = NoReturn
            /\ UNCHANGED <<configuration, controller, mon>>
       ELSE LET o == After(configuration, controller, c) IN
            /\ configuration' = o.cfg
            /\ controller' = o.ctl
            /\ IF o.res = "none"
               THEN /\ calls' = Without(c) (+) SetToBag({[c EXCEPT !.pc = "storing",
                                                           !.content = o.content,
                                                           !.reply = b]})
                    /\ ret' = NoReturn
                    /\ UNCHANGED mon
               ELSE Finish([c EXCEPT !.reply = b], o.res, Absent, Without(c), solo,
                           disk, o.cfg)
    /\ UNCHANGED <<disk, nextKey, nextTag, broken, solo, before, erased, tags, sig>>
    /\ UNCHANGED wire

\* a method that would store its configuration when processRequest throws
ExchangeFailStored(c) ==
    /\ c.pc = "exchange"
    /\ disk' = configuration
    /\ Finish(c, "requestFailed", Absent, Without(c), solo, disk, configuration)
    /\ UNCHANGED <<configuration, controller, hsm, nextKey, nextTag,
                   superseded, spent, respent, broken, solo, before, erased, tags, sig>>
    /\ UNCHANGED wire

\* processRequest throws: three attempts have failed
ExchangeFail(c) ==
    /\ c.pc = "exchange"
    /\ Finish(c, "requestFailed", Absent, Without(c), solo, disk, configuration)
    /\ UNCHANGED <<disk, configuration, controller, hsm, nextKey, nextTag,
                   superseded, spent, respent, broken, solo, before, erased, tags, sig>>
    /\ UNCHANGED wire

\* storeConfiguration returns; the method returns the response.
\* w = "history": what it returns is recorded.
StoreOk(c, w) ==
    /\ c.pc = "storing"
    /\ disk' = c.content
    /\ erased' = (c.op # "generateKeys" /\ erased)
    /\ sig' = IF w = "history" THEN SigAfter(c) ELSE sig
    /\ Finish(c, "ok", Absent, Without(c), solo, c.content, configuration)
    /\ UNCHANGED <<configuration, controller, hsm, nextKey, nextTag,
                   superseded, spent, respent, broken, solo, before, tags>>
    /\ UNCHANGED wire

\* storeConfiguration throws
StoreFail(c, w) ==
    /\ c.pc = "storing"
    /\ broken' = (w = "history" \/ broken)
    /\ Finish(c, "storageException", Absent, Without(c), solo, disk, configuration)
    /\ UNCHANGED <<disk, configuration, controller, hsm, nextKey, nextTag,
                   superseded, spent, respent, solo, before, erased, tags, sig>>
    /\ UNCHANGED wire

\* an eraseKeys that would delete the file and keep the configuration in memory
DeleteOkRemembered(c, w) ==
    /\ c.pc = "deleting"
    /\ disk' = NoRecord
    /\ broken' = FALSE
    /\ erased' = (w = "history")
    /\ sig' = NoSig
    /\ Finish(c, "ok", Absent, Without(c), solo, NoRecord, configuration)
    /\ UNCHANGED <<configuration, controller, hsm, nextKey, nextTag,
                   superseded, spent, respent, solo, before, tags>>
    /\ UNCHANGED wire

\* deleteConfiguration returns: the file is gone, configuration and controller
\* forgotten.  w = "history": the return of eraseKeys is recorded.
DeleteOk(c, w) ==
    /\ c.pc = "deleting"
    /\ disk' = NoRecord
    /\ configuration' = NoRecord
    /\ controller' = "undefined"
    /\ broken' = FALSE
    /\ Finish(c, "ok", Absent, Without(c), solo, NoRecord, NoRecord)
    /\ erased' = (w = "history")
    /\ sig' = NoSig
    /\ UNCHANGED <<hsm, nextKey, nextTag, superseded, spent, respent, solo, before, tags>>
    /\ UNCHANGED wire

\* configurator.delete() throws
DeleteFail(c) ==
    /\ c.pc = "deleting"
    /\ Finish(c, "storageException", Absent, Without(c), solo, disk, configuration)
    /\ UNCHANGED <<disk, configuration, controller, hsm, nextKey, nextTag,
                   superseded, spent, respent, broken, solo, before, erased, tags, sig>>
    /\ UNCHANGED wire

\* the process ends and a new HSMProxy is constructed on the same directory
Restart ==
    /\ calls = EmptyBag
    /\ configuration # NoRecord
    /\ configuration' = NoRecord
    /\ controller' = "undefined"
    /\ ret' = NoReturn
    /\ broken' = FALSE
    /\ UNCHANGED <<disk, calls, hsm, nextKey, nextTag,
                   superseded, spent, respent, solo, before, mon, erased, tags, sig>>
    /\ UNCHANGED wire

\* the methods callers use: w = "all" adds the one that changes no key,
\* w = "stateless" the two that need no configuration
Called(w) ==
    IF w = "all" THEN Ops
    ELSE IF w = "stateless" THEN StateBearing \cup Stateless
    ELSE StateBearing

Next(w) ==
    \/ \E op \in Called(w) : Start(op)
    \/ \E c \in InFlight : LoadOk(c)
    \/ \E c \in InFlight : LoadFail(c)
    \/ \E c \in InFlight : BootstrapOk(c)
    \/ \E c \in InFlight : BootstrapFail(c)
    \/ \E c \in InFlight : ExchangeOk(c, w)
    \/ \E c \in InFlight : ExchangeFail(c)
    \/ \E c \in InFlight : StoreOk(c, w)
    \/ \E c \in InFlight : StoreFail(c, w)
    \/ \E c \in InFlight : DeleteOk(c, w)
    \/ \E c \in InFlight : DeleteFail(c)
    \/ Restart

\* the proxy alone, its key operations
Spec == Init /\ [][Next("none")]_vars

\* the proxy alone, all its methods
SpecAll == Init /\ [][Next("all")]_vars

\* the proxy alone, its key operations, digestBytes and validSignature
SpecStateless == Init /\ [][Next("stateless")]_vars

\* the proxy and the keys the HSM holds
SpecHsm == Init /\ [][Next("hsm")]_vars

\* the proxy, the use it makes of superseded secrets and its failed stores
SpecHistory == Init /\ [][Next("history")]_vars

\* the proxy and the responses the HSM gives to its key operations
SpecReply == Init /\ [][Next("reply")]_vars


(***************************************************************************)
(* formatRequest (lines 1762-1794).                                        *)
(*                                                                         *)
(* A Buffer is kept as its runs: << <<b1, n1>>, <<b2, n2>>, ... >> is n1   *)
(* bytes b1, then n2 bytes b2, and so on, every n positive and adjacent    *)
(* runs of different bytes, so that two Buffers hold the same bytes        *)
(* exactly when their runs are equal.                                      *)
(***************************************************************************)
\* the most arguments a request is formatted with
MaxArgs == 2

\* Buffer.alloc(n, b): n bytes b
Fill(b, n) == IF n = 0 THEN << >> ELSE << <<b, n>> >>

\* Buffer.concat([a, b])
Concat(a, b) ==
    IF a = << >> THEN b
    ELSE IF b = << >> THEN a
    ELSE IF a[Len(a)][1] = b[1][1]
         THEN SubSeq(a, 1, Len(a) - 1)
                  \o << <<b[1][1], a[Len(a)][2] + b[1][2]>> >>
                  \o Tail(b)
         ELSE a \o b

\* Buffer.from([x, y])
From(x, y) == Concat(Fill(x, 1), Fill(y, 1))

\* buffer.length
RECURSIVE Length(_)
Length(a) == IF a = << >> THEN 0 ELSE a[1][2] + Length(Tail(a))

\* buffer[i], the first byte being buffer[0]
RECURSIVE At(_, _)
At(a, i) == IF i < a[1][2] THEN a[1][1] ELSE At(Tail(a), i - a[1][2])

\* buffer.slice(from, to), for 0 <= from <= to
RECURSIVE Slice(_, _, _)
Slice(a, from, to) ==
    IF a = << >> \/ to = 0 THEN << >>
    ELSE LET n == a[1][2] IN
         IF from >= n THEN Slice(Tail(a), from - n, to - n)
         ELSE IF to <= n THEN Fill(a[1][1], to - from)
         ELSE Concat(Fill(a[1][1], n - from), Slice(Tail(a), 0, to - n))

\* the switch of formatRequest: the code of a request type
TypeOf(type) ==
    CASE type = "generateKeys" -> 1
      [] type = "rotateKeys" -> 2
      [] type = "eraseKeys" -> 3
      [] type = "digestBytes" -> 4
      [] type = "signBytes" -> 5
      [] type = "validSignature" -> 6

\* (length & 0xFF00) >> 8 and length & 0xFF
HighByte(length) == (length \div 256) % 256
LowByte(length) == length % 256

\* a header that would put the low byte first
HeaderLittleEndian(length) == From(LowByte(length), HighByte(length))

\* the two bytes written before an argument
Header(length) == From(HighByte(length), LowByte(length))

\* args.forEach(...): each argument is appended behind its header
RECURSIVE Appended(_, _)
Appended(request, args) ==
    IF args = << >> THEN request
    ELSE Appended(Concat(Concat(request, Header(Length(Head(args)))), Head(args)),
                  Tail(args))

formatRequest(type, args) ==
    Appended(From(TypeOf(type) % 256, Len(args) % 256), args)

\* the request types
Types == {"generateKeys", "rotateKeys", "eraseKeys", "digestBytes", "signBytes",
          "validSignature"}

\* the arguments formatRequest is tried with: no bytes, one byte of each of two
\* values, and the longest lengths two bytes can and cannot hold
Arguments == {Fill(0, 0), Fill(0, 1), Fill(1, 1), Fill(0, 65535), Fill(0, 65536)}

\* the argument lists of at most MaxArgs arguments
ArgumentLists == UNION {[1..n -> Arguments] : n \in 0..MaxArgs}

\* formatRequest is called with the next (type, args)
Format ==
    /\ pending # << >>
    /\ LET type == Head(pending)[1]
           args == Head(pending)[2]
       IN  formatted' = Append(formatted,
               [type |-> type, args |-> args, request |-> formatRequest(type, args)])
    /\ pending' = Tail(pending)
    /\ UNCHANGED <<disk, configuration, controller, calls, hsm, nextKey, nextTag,
                   ret, superseded, spent, respent, broken, solo, before, mon,
                   erased, tags, sig, req, api>>

\* two calls of formatRequest are to be made
InitFormat ==
    /\ Constructed
    /\ pending \in [1..2 -> Types \X ArgumentLists]
    /\ formatted = << >>
    /\ req = NoRun
    /\ api = NoApi

\* formatRequest alone
SpecFormat == InitFormat /\ [][Format]_vars


(***************************************************************************)
(* processRequest (lines 1811-1869) and the promises it awaits: find-      *)
(* Peripheral, connect, discoverService, retrieveCharacteristics,          *)
(* processBlock and disconnect (lines 1881-1987).  One action is one       *)
(* callback of the bluetooth library together with the code that runs      *)
(* from it up to the next await.                                           *)
(***************************************************************************)
BLOCK_SIZE == 510

\* the most extra blocks whose boundary lengths requests are sent with
MaxBlocks == 3

\* the devices that advertise themselves as ArmorD
MaxPeripherals == 2
Peripherals == 1..MaxPeripherals

\* the activation of processRequest at its call, before `var tryAgain = 3`
Activation(request) ==
    [NoRun EXCEPT !.request = request, !.tryAgain = 3]

\* Math.ceil((length - 2) / BLOCK_SIZE) - 1, floored instead: the mutant
ExtraBlocksFloor(length) == (length - 2) \div BLOCK_SIZE - 1

\* Math.ceil((request.length - 2) / BLOCK_SIZE) - 1
ExtraBlocks(length) == (length - 2 + BLOCK_SIZE - 1) \div BLOCK_SIZE - 1

Min(a, b) == IF a < b THEN a ELSE b

\* an offset that would leave out the two header bytes of the request
BufferOfShifted(request, block) ==
    IF block > 0
    THEN LET offset == block * BLOCK_SIZE
             blockSize == Min(Length(request) - offset, BLOCK_SIZE)
         IN  Concat(From(0, block % 256),
                    Slice(request, offset, offset + blockSize))
    ELSE Slice(request, 0, Min(Length(request), BLOCK_SIZE + 2))

\* the buffer handed to processBlock: extra block `block` behind its header,
\* or, when no extra block is left, the first bytes of the request
BufferOf(request, block) ==
    IF block > 0
    THEN LET offset == block * BLOCK_SIZE + 2
             blockSize == Min(Length(request) - offset, BLOCK_SIZE)
         IN  Concat(From(0, block % 256),
                    Slice(request, offset, offset + blockSize))
    ELSE Slice(request, 0, Min(Length(request), BLOCK_SIZE + 2))

\* `while (tryAgain--)`: the next attempt begins with findPeripheral, which
\* sets its timer of one second and starts the scan
Loop(r) ==
    IF r.tryAgain = 0
    THEN [r EXCEPT !.pc = "done", !.result = "undefined"]
    ELSE [r EXCEPT !.tryAgain = @ - 1, !.attempt = @ + 1, !.pc = "findPeripheral",
                   !.timers = @ \cup {r.attempt + 1}, !.scan = r.attempt + 1]

\* the mutant: the catch block gives up while one attempt is left
CatchEarly(r) ==
    LET f == [r EXCEPT !.failed = @ + 1] IN
    IF f.tryAgain > 1
    THEN IF f.peripheral # 0
         THEN [f EXCEPT !.pc = "disconnect", !.after = "continue"]
         ELSE Loop(f)
    ELSE [f EXCEPT !.pc = "done", !.result = "requestFailed"]

\* the catch block: an attempt has thrown
Catch(r) ==
    LET f == [r EXCEPT !.failed = @ + 1] IN
    IF f.tryAgain # 0
    THEN IF f.peripheral # 0
         THEN [f EXCEPT !.pc = "disconnect", !.after = "continue"]
         ELSE Loop(f)
    ELSE [f EXCEPT !.pc = "done", !.result = "requestFailed"]

\* what processRequest does not touch
Proxy ==
    UNCHANGED <<disk, configuration, controller, calls, hsm, nextKey, nextTag,
                ret, superseded, spent, respent, broken, solo, before, mon,
                erased, tags, sig, pending, formatted, api>>

\* the request formatRequest has returned is handed to processRequest
ProcessRequest ==
    /\ req.pc = "idle"
    /\ pending = << >>
    /\ formatted # << >>
    /\ req' = Loop(Activation(formatted[Len(formatted)].request))
    /\ Proxy

\* findPeripheral: while the scan runs, device p is discovered under the name
\* ArmorD; the scan is stopped, the timer is left to run
Discover(p) ==
    /\ req.pc = "findPeripheral"
    /\ req.scan # 0
    /\ req' = [req EXCEPT !.peripheral = p, !.found = req.attempt, !.scan = 0,
                          !.pc = "connect"]
    /\ Proxy

\* findPeripheral: the timer of one second fires first
ScanTimeout ==
    /\ req.pc = "findPeripheral"
    /\ req' = Catch([req EXCEPT !.timers = @ \ {req.attempt}, !.scan = 0])
    /\ Proxy

\* the timer of a findPeripheral that has found its peripheral fires:
\* bluetooth.stopScanning() is called, reject has no effect any more
StaleTimeout(a) ==
    /\ a \in req.timers
    /\ ~(req.pc = "findPeripheral" /\ a = req.attempt)
    /\ req' = [req EXCEPT !.timers = @ \ {a}, !.scan = 0]
    /\ Proxy

\* connect: the callback of peripheral.connect, without a cause
ConnectOk ==
    /\ req.pc = "connect"
    /\ req' = [req EXCEPT !.links = @ \cup {req.peripheral}, !.pc = "discoverService"]
    /\ Proxy

\* connect: the callback of peripheral.connect, with a cause
ConnectFail ==
    /\ req.pc = "connect"
    /\ req' = Catch(req)
    /\ Proxy

\* discoverService: exactly one UART service is found
ServiceOk ==
    /\ req.pc = "discoverService"
    /\ req' = [req EXCEPT !.pc = "retrieveCharacteristics"]
    /\ Proxy

\* discoverService: a cause, or not exactly one service
ServiceFail ==
    /\ req.pc = "discoverService"
    /\ req' = Catch(req)
    /\ Proxy

\* retrieveCharacteristics resolves; i and o tell whether the list holds the
\* notification and the write characteristic.  `input` and `output` are vars
\* of the function, so what an earlier attempt found is still there.
CharacteristicsOk(i, o) ==
    /\ req.pc = "retrieveCharacteristics"
    /\ LET r == [req EXCEPT !.input = IF i THEN req.attempt ELSE @,
                            !.output = IF o THEN req.attempt ELSE @]
       IN  req' = IF r.input # 0 /\ r.output # 0
                  THEN [r EXCEPT !.block = ExtraBlocks(Length(r.request)),
                                 !.pc = "subscribe"]
                  ELSE [r EXCEPT !.pc = "disconnect", !.after = "throw"]
    /\ Proxy

\* retrieveCharacteristics: the callback comes with a cause
CharacteristicsFail ==
    /\ req.pc = "retrieveCharacteristics"
    /\ req' = Catch(req)
    /\ Proxy

\* processBlock: the callback of input.subscribe writes the block
Subscribed ==
    /\ req.pc = "subscribe"
    /\ req' = [req EXCEPT
           !.written = Append(@, [attempt |-> req.attempt,
                                  block |-> IF req.block > 0 THEN req.block ELSE 0,
                                  buffer |-> BufferOf(req.request, req.block)]),
           !.pc = "read"]
    /\ Proxy

\* the notifications the HSM may send: no byte, one byte 0, 1, 2 or 255,
\* two bytes, the 64 bytes of a signature
Responses ==
    {Fill(0, 0), Fill(0, 1), Fill(1, 1), Fill(2, 1), Fill(255, 1), Fill(2, 2),
     Fill(9, 64)}

\* a processBlock that would take every notification for a response
RejectsNever(response) == FALSE

\* response.length === 1 && response.readUInt8(0) > 1
Rejects(response) == Length(response) = 1 /\ At(response, 0) > 1

\* a processRequest that would go on after a block has been rejected
NotifiedLax(response) ==
    /\ req.pc = "read"
    /\ LET r == [req EXCEPT !.heard = @ + 1, !.last = response]
       IN  req' = IF r.block > 0
                  THEN [r EXCEPT !.block = @ - 1, !.pc = "subscribe"]
                  ELSE [r EXCEPT
                           !.response = [attempt |-> r.attempt, block |-> 0,
                                         bytes |-> response],
                           !.pc = "disconnect", !.after = "return"]
    /\ Proxy

\* processBlock: the notification arrives with `response`.  After an extra
\* block the next block follows, after the first bytes of the request the
\* response is kept and the link is closed.
Notified(response) ==
    /\ req.pc = "read"
    /\ LET r == [req EXCEPT !.heard = @ + 1, !.last = response]
       IN  req' = IF Rejects(response) THEN Catch(r)
                  ELSE IF r.block > 0
                       THEN [r EXCEPT !.block = @ - 1, !.pc = "subscribe"]
                       ELSE [r EXCEPT
                                !.response = [attempt |-> r.attempt, block |-> 0,
                                              bytes |-> response],
                                !.pc = "disconnect", !.after = "return"]
    /\ Proxy

\* disconnect: the callback of peripheral.disconnect; processRequest goes on
\* with what stood behind the await
Disconnected ==
    /\ req.pc = "disconnect"
    /\ LET r == [req EXCEPT !.links = @ \ {req.peripheral}, !.after = "none",
                            !.released = Append(@, [attempt |-> req.attempt,
                                                    found |-> req.found])]
       IN  req' = CASE req.after = "return" ->
                          [r EXCEPT !.pc = "done", !.result = "response"]
                    [] req.after = "throw" -> Catch(r)
                    [] req.after = "continue" -> Loop(r)
    /\ Proxy

\* the lengths at which the number of blocks changes
Lengths ==
    {2} \cup {k * BLOCK_SIZE + 2 : k \in 1..MaxBlocks}
        \cup {k * BLOCK_SIZE + 3 : k \in 1..MaxBlocks}

\* n bytes to digest: a hundred bytes b, a hundred bytes b + 1, and so on
RECURSIVE Ramp(_, _)
Ramp(b, n) ==
    IF n = 0 THEN << >>
    ELSE Concat(Fill(b % 256, Min(n, 100)), Ramp(b + 1, n - Min(n, 100)))

\* one request of each of these lengths
Requests ==
    {<<"eraseKeys", << >> >>}
        \cup {<<"digestBytes", <<Ramp(0, n - 4)>> >> : n \in Lengths \ {2}}

\* one request is to be formatted and sent
InitRequest ==
    /\ Constructed
    /\ pending \in {<<x>> : x \in Requests}
    /\ formatted = << >>
    /\ req = NoRun
    /\ api = NoApi

\* the callbacks the bluetooth library always makes
Callbacks ==
    \/ \E p \in Peripherals : Discover(p)
    \/ ScanTimeout
    \/ ConnectOk
    \/ ConnectFail
    \/ ServiceOk
    \/ ServiceFail
    \/ \E i, o \in BOOLEAN : CharacteristicsOk(i, o)
    \/ CharacteristicsFail
    \/ Subscribed
    \/ Disconnected

NextRequest ==
    \/ Format
    \/ ProcessRequest
    \/ Callbacks
    \/ \E response \in Responses : Notified(response)

\* one request on its way to the HSM
SpecRequest == InitRequest /\ [][NextRequest]_vars

\* the same, the caller and the bluetooth library doing what they have begun;
\* whether the HSM sends a notification is up to the HSM
SpecRequestFair ==
    SpecRequest /\ WF_vars(Format \/ ProcessRequest \/ Callbacks)

\* the timers that are left over fire.  A timer that is left over only stops
\* the scan, and a scan that is stopped ends as ScanTimeout lets any scan
\* end: the activations of processRequest are those of NextRequest.
Timers == \E a \in req.timers : StaleTimeout(a)

\* one request without arguments is to be formatted and sent
InitScan ==
    /\ Constructed
    /\ pending = <<  <<"eraseKeys", << >> >>  >>
    /\ formatted = << >>
    /\ req = NoRun
    /\ api = NoApi

NextScan ==
    \/ NextRequest
    \/ Timers

\* one request on its way to the HSM and the timers of its scans
SpecScan == InitScan /\ [][NextScan]_vars


(***************************************************************************)
(* The singleton returned by exports.api (lines 802-1046): it keeps        *)
(* `secret` and `previousSecret` in memory only, has no lifecycle states   *)
(* and no persisted record.  A method runs without interruption up to      *)
(* `await this.initializeAPI()`, which it calls until one call of it has   *)
(* succeeded, and from there up to `await processRequest`.                 *)
(***************************************************************************)
ApiOps == StateBearing \cup Stateless

\* a call of a method of the singleton, suspended at pc with the secret it sends
ApiCalled(op, pc, key) == [op |-> op, pc |-> pc, key |-> key]

\* the method returns or throws
ApiReturn(a, op, res, key) ==
    [a EXCEPT !.ret = [op |-> op, res |-> res, key |-> key]]

\* the method goes on to `await processRequest(peripheral, request, debug)`
ApiSend(a, op, key) ==
    [a EXCEPT !.calls = @ (+) SetToBag({ApiCalled(op, "exchange", key)}),
              !.ret = NoApi.ret]

\* eraseKeys has got a byte that is not 0: it returns true
ApiErased(a) == [a EXCEPT !.erased = TRUE]

\* a method from `this.initializeAPI` being undefined to its processRequest
ApiBegin(a, op) ==
    CASE op = "generateKeys" ->
             ApiSend([a EXCEPT !.secret = a.made + 1, !.made = @ + 1],
                     op, a.made + 1)
      [] op = "rotateKeys" ->
             LET b == [a EXCEPT !.previousSecret = a.secret,
                                !.secret = a.made + 1, !.made = @ + 1]
             IN  IF a.secret = Absent
                 THEN ApiReturn(b, op, "typeError", Absent)
                 ELSE ApiSend(b, op, a.made + 1)
      [] op = "signBytes" ->
             IF a.previousSecret # Absent
             THEN ApiSend([a EXCEPT !.previousSecret = Absent], op, a.previousSecret)
             ELSE IF a.secret # Absent
             THEN ApiSend(a, op, a.secret)
             ELSE ApiReturn(a, op, "noKeys", Absent)
      [] OTHER -> ApiSend(a, op, Absent)

\* what the singleton does not touch
Singleton ==
    UNCHANGED <<disk, configuration, controller, calls, hsm, nextKey, nextTag,
                ret, superseded, spent, respent, broken, solo, before, mon,
                erased, tags, sig, pending, formatted, req>>

\* a caller invokes a method
ApiCall(op) ==
    /\ BagCardinality(api.calls) < MaxCalls
    /\ op \in {"generateKeys", "rotateKeys"} => api.made < MaxKeys
    /\ LET a == [api EXCEPT !.erased = (op # "generateKeys" /\ @)]
       IN  api' = IF api.ready
                  THEN ApiBegin(a, op)
                  ELSE [a EXCEPT
                           !.calls = @ (+) SetToBag({ApiCalled(op, "initializeAPI", Absent)}),
                           !.ret = NoApi.ret]
    /\ Singleton

\* initializeAPI: findPeripheral has found the HSM
ApiInitialized(c) ==
    /\ c.pc = "initializeAPI"
    /\ c.op \in {"generateKeys", "rotateKeys"} => api.made < MaxKeys
    /\ api' = ApiBegin([api EXCEPT !.ready = TRUE,
                                   !.calls = @ (-) SetToBag({c})], c.op)
    /\ Singleton

\* initializeAPI: findPeripheral has failed
ApiInitializeFail(c) ==
    /\ c.pc = "initializeAPI"
    /\ api' = ApiReturn([api EXCEPT !.calls = @ (-) SetToBag({c})],
                        c.op, "unexpected", Absent)
    /\ Singleton

\* processRequest returns the response; b is its first byte being not 0
ApiAnswer(c, b) ==
    /\ c.pc = "exchange"
    /\ LET a == [api EXCEPT !.calls = @ (-) SetToBag({c})]
       IN  api' = IF c.op = "eraseKeys"
                  THEN IF b THEN ApiReturn(ApiErased(a), c.op, "true", c.key)
                            ELSE ApiReturn(a, c.op, "false", c.key)
                  ELSE ApiReturn(a, c.op, "ok", c.key)
    /\ Singleton

\* processRequest throws
ApiFail(c) ==
    /\ c.pc = "exchange"
    /\ api' = ApiReturn([api EXCEPT !.calls = @ (-) SetToBag({c})],
                        c.op, "unexpected", c.key)
    /\ Singleton

NextApi ==
    \/ \E op \in ApiOps : ApiCall(op)
    \/ \E c \in BagToSet(api.calls) : ApiInitialized(c)
    \/ \E c \in BagToSet(api.calls) : ApiInitializeFail(c)
    \/ \E c \in BagToSet(api.calls), b \in BOOLEAN : ApiAnswer(c, b)
    \/ \E c \in BagToSet(api.calls) : ApiFail(c)

\* the singleton and its callers
SpecApi == Init /\ [][NextApi]_vars


(***************************************************************************)
(* First use: the proxy on a directory without a record, called with       *)
(* getTag and generateKeys only, while the configurator and the HSM never  *)
(* fail.                                                                   *)
(***************************************************************************)
FirstCalls == {"getTag", "generateKeys"}

NextFirst ==
    \/ \E op \in FirstCalls : Start(op)
    \/ \E c \in InFlight : LoadOk(c)
    \/ \E c \in InFlight : BootstrapOk(c)
    \/ \E c \in InFlight : ExchangeOk(c, "all")
    \/ \E c \in InFlight : StoreOk(c, "all")

SpecFirst == Init /\ [][NextFirst]_vars

(***************************************************************************)
(* The blocks of one request that is answered at once: formatRequest, then *)
(* processRequest with a peripheral that is found, connects, has both      *)
(* characteristics and accepts every block.                                *)
(***************************************************************************)
\* the argument lists whose arguments two length bytes can hold
WithinLimits ==
    {args \in ArgumentLists : \A i \in 1..Len(args) : Length(args[i]) <= 65535}

\* one request is to be formatted and sent
InitBlocks ==
    /\ Constructed
    /\ pending \in {<<x>> : x \in Types \X WithinLimits}
    /\ formatted = << >>
    /\ req = NoRun
    /\ api = NoApi

NextBlocks ==
    \/ Format
    \/ ProcessRequest
    \/ Discover(1)
    \/ ConnectOk
    \/ ServiceOk
    \/ CharacteristicsOk(TRUE, TRUE)
    \/ Subscribed
    \/ Notified(Fill(1, 1))
    \/ Disconnected

SpecBlocks == InitBlocks /\ [][NextBlocks]_vars

(***************************************************************************)
(* Properties.                                                             *)
(***************************************************************************)
\* the number of copies of call c that leave, and that enter, the bag in a step
Leaves(c) == CopiesIn(c, calls') < CopiesIn(c, calls)
Enters(c) == CopiesIn(c, calls') > CopiesIn(c, calls)

KeyOps == {"generateKeys", "rotateKeys", "signBytes"}

\* the table has no transition for key operation op in lifecycle state `state`
Forbidden(state, op) ==
    /\ state \in States
    /\ op \in KeyOps
    /\ NextStateOf(state, op) = "undefined"

\* C1: after a rotateKeys that returned, the next signBytes that returns has
\* sent the secret the rotation replaced and leaves state loneKey with no
\* previous proxy key, on disk and in memory; the signBytes after it has sent
\* the secret the rotation created.
C1_SignAfterRotate ==
    /\ mon.stage >= 2 => (mon.sent1 = mon.pre /\ mon.clean1)
    /\ mon.stage = 3 => mon.sent2 = mon.post

C1_Witness == mon.stage = 3 /\ mon.pre # mon.post /\ ret.op = "signBytes"

\* C2: no superseded secret is the key of two answered signBytes requests.
C2_OneShot == respent = {}

\* the configuration the next call will work with
Host == IF configuration # NoRecord THEN configuration ELSE disk

\* C3: when no call is in flight the host is keyless, loneKey or twoKeys
\* exactly when the HSM holds no key, a current key bound to the host's proxy
\* key, or also a previous key bound to the host's previous proxy key.
C3_Agreement ==
    calls = EmptyBag =>
        /\ Host.state \in {"undefined", "keyless"} <=> hsm = NoKeys
        /\ Host.state = "loneKey" <=>
               (hsm.key # Absent /\ hsm.prev = Absent /\ hsm.key = Host.proxyKey)
        /\ Host.state = "twoKeys" <=>
               (hsm.key # Absent /\ hsm.prev # Absent /\ hsm.key = Host.proxyKey
                /\ hsm.prev = Host.previousProxyKey)

\* no request is handed to processRequest in this step
NoneSent ==
    \A x \in BagToSet(calls') : x.pc = "exchange" => ~Enters(x)

\* the method op, checked in lifecycle state `state`, is refused: its caller
\* gets the controller's exception, nothing is sent and the state stays
Refused(op, state) ==
    /\ ret'.op = op
    /\ ret'.res = "invalidEvent"
    /\ NoneSent
    /\ controller' = state
    /\ configuration'.state = state
    /\ hsm' = hsm

\* C4: a key operation the table forbids in the current lifecycle state fails,
\* sends no request to the HSM and leaves the lifecycle state as it was;
\* whether the state was in memory, just loaded, or just created on first use.
C4_ForbiddenFails ==
    [][/\ \A op \in KeyOps :
              (configuration # NoRecord /\ Forbidden(controller, op) /\ Start(op))
                  => Refused(op, controller)
       /\ \A c \in InFlight :
              (disk # NoRecord /\ Forbidden(disk.state, c.op) /\ LoadOk(c))
                  => (Refused(c.op, disk.state) /\ disk' = disk)
       /\ \A c \in InFlight :
              (configuration # NoRecord /\ Forbidden(configuration.state, c.op)
               /\ BootstrapOk(c))
                  => Refused(c.op, configuration.state)]_vars

C4_Witness ==
    /\ ret.res = "invalidEvent"
    /\ Forbidden(controller, ret.op)
    /\ configuration.state = controller

\* the transitions of the lifecycle, as the table is documented
TableStep(from, op, to) ==
    <<from, op, to>> \in {<<"keyless", "generateKeys", "loneKey">>,
                          <<"loneKey", "rotateKeys", "twoKeys">>,
                          <<"loneKey", "signBytes", "loneKey">>,
                          <<"twoKeys", "signBytes", "loneKey">>}

\* C5: the lifecycle state (the controller's, and the $state of the
\* configuration in memory) changes only in the step in which the HSM's
\* response to a key operation arrives, and then by the table's transition for
\* that operation; or when eraseKeys deletes the configuration, when the
\* configuration is loaded or created, or when the proxy is restarted.
C5_OnlyByTable ==
    [][(controller' # controller \/ configuration'.state # configuration.state) =>
          \/ \E c \in InFlight :
                 /\ c.pc = "exchange" /\ c.op \in KeyOps /\ Leaves(c)
                 /\ ret'.res # "requestFailed"
                 /\ TableStep(controller, c.op, controller')
                 /\ configuration'.state = controller'
          \/ \E c \in InFlight :
                 /\ c.pc = "deleting" /\ c.op = "eraseKeys" /\ Leaves(c)
                 /\ controller' = "undefined" /\ configuration' = NoRecord
          \/ \E c \in InFlight :
                 /\ c.pc \in {"loading", "bootstrap"} /\ Leaves(c)
                 /\ configuration'.state \in {disk.state, "keyless"}
                 /\ controller' \in {controller, configuration'.state}
          \/ /\ calls = EmptyBag /\ calls' = EmptyBag
             /\ controller' = "undefined" /\ configuration' = NoRecord]_vars

C5_Witness ==
    /\ controller = "twoKeys"
    /\ configuration.state = "twoKeys"
    /\ \E c \in InFlight : c.op = "rotateKeys" /\ c.pc = "storing"

\* the record created on first use
Bootstrapped(d) == \E t \in Tags : d = FreshRecord(t)

\* C6 as stated: after a call whose HSM exchange failed, and during which no
\* other call ran, the record on disk is the record that was there before it.
C6_Untouched ==
    (ret.res = "requestFailed" /\ ret.alone) => disk = ret.before

\* C6 amended: the failure of the exchange writes nothing; after a call whose
\* exchange failed, and during which no other call ran, the record on disk is
\* the one that was there before it or, when there was none, the record the
\* call created on first use.
C6_UntouchedButBootstrap ==
    [][ret'.res = "requestFailed" =>
          /\ disk' = disk
          /\ ret'.alone =>
                 \/ disk' = ret'.before
                 \/ ret'.before = NoRecord /\ Bootstrapped(disk')]_vars

C6_Witness ==
    /\ ret.res = "requestFailed"
    /\ ret.alone
    /\ ret.op = "generateKeys"
    /\ ret.before = NoRecord
    /\ Bootstrapped(disk)

\* the record a key operation that succeeded should have left on disk
PostState(r, d) ==
    CASE r.op = "generateKeys" ->
             d.state = "loneKey" /\ d.proxyKey = r.key
      [] r.op = "rotateKeys" ->
             /\ d.state = "twoKeys"
             /\ d.previousProxyKey = r.was
             /\ d.proxyKey = r.key
      [] r.op = "signBytes" ->
             /\ d.state = "loneKey"
             /\ d.previousProxyKey = Absent
             /\ d.proxyKey = r.was
      [] OTHER -> TRUE

\* C7: when generateKeys, rotateKeys or signBytes returns its result, the
\* record on disk has the state the operation leads to, the secret it sent as
\* proxy key (signBytes: the proxy key as it was) and, after rotateKeys, the
\* former proxy key as previous proxy key (signBytes: none).
C7_PostState ==
    (ret.res = "ok" /\ ret.op \in KeyOps) => PostState(ret, disk)

\* a record of the shape the lifecycle states stand for
WellShaped(d) ==
    /\ d.state = "keyless" <=> (d.proxyKey = Absent /\ d.previousProxyKey = Absent)
    /\ d.state = "loneKey" <=> (d.proxyKey # Absent /\ d.previousProxyKey = Absent)
    /\ d.state = "twoKeys" <=> (d.proxyKey # Absent /\ d.previousProxyKey # Absent)

\* C8: every record on disk is keyless exactly without keys, loneKey exactly
\* with a proxy key only, twoKeys exactly with a proxy key and a previous one.
C8_Shape == disk # NoRecord => WellShaped(disk)

\* C9: once a store that follows an answered request has failed, no
\* generateKeys, rotateKeys or signBytes is sent to the HSM until an eraseKeys
\* has deleted the configuration.
C9_Latched ==
    [][broken =>
          \A x \in BagToSet(calls') :
              (x.pc = "exchange" /\ x.op \in KeyOps) => ~Enters(x)]_vars

\* C10: a key operation returns its result only in the step in which its own
\* store completes, with the record it stored on disk; that store begins only
\* in the step in which the HSM's response to the same operation arrives; and
\* the state on disk changes only when a store or a delete completes.
C10_StoredBeforeReturn ==
    [][/\ (ret'.res = "ok" /\ ret'.op \in KeyOps) =>
              \E c \in InFlight :
                  /\ c.pc = "storing" /\ c.op = ret'.op /\ Leaves(c)
                  /\ disk' = c.content
                  /\ c.content.state \in {"loneKey", "twoKeys"}
       /\ \A x \in BagToSet(calls') :
              (x.pc = "storing" /\ Enters(x)) =>
                  \E c \in InFlight :
                      /\ c.pc = "exchange" /\ c.op = x.op /\ Leaves(c)
                      /\ ret'.res # "requestFailed"
       /\ disk' # disk =>
              \E c \in InFlight :
                  c.pc \in {"storing", "bootstrap", "deleting"} /\ Leaves(c)]_vars

C10_Witness ==
    /\ ret.res = "ok"
    /\ ret.op = "generateKeys"
    /\ disk.state = "loneKey"
    /\ disk.proxyKey = ret.key

\* C11: no two key operations are in processRequest at once, each having
\* passed its state check while the other was in flight.
C11_NoTwoAtHsm ==
    \A c \in InFlight :
        (c.pc = "exchange" /\ c.op \in KeyOps) =>
            /\ CopiesIn(c, calls) = 1
            /\ \A d \in InFlight : (d.pc = "exchange" /\ d.op \in KeyOps) => d = c

\* C18: eraseKeys sends its request whatever the lifecycle state, loaded or
\* not; when it returns, there is no record on disk and the proxy holds
\* neither configuration nor controller.
C18_EraseAlways ==
    [][/\ Start("eraseKeys") =>
              \E x \in BagToSet(calls') :
                  x.op = "eraseKeys" /\ x.pc = "exchange" /\ Enters(x)
       /\ (ret'.op = "eraseKeys" /\ ret'.res = "ok") =>
              /\ disk' = NoRecord
              /\ configuration' = NoRecord
              /\ controller' = "undefined"]_vars

C18_Witness ==
    /\ ret.op = "eraseKeys"
    /\ ret.res = "ok"
    /\ ret.alone
    /\ ret.before.state = "twoKeys"
    /\ disk = NoRecord
    /\ configuration = NoRecord

\* C19: after an eraseKeys has returned and until a generateKeys has returned,
\* a signBytes made with no other call in flight does not return a signature.
C19_NoSignAfterErase ==
    (erased /\ ret.op = "signBytes" /\ ret.alone) => ret.res # "ok"

\* C20: getTag never returns two different tags.
C20_OneTag == Cardinality(tags) <= 1

\* C16: two calls of formatRequest that return the same bytes were made with
\* the same type and the same arguments.
C16_Injective ==
    \A i, j \in DOMAIN formatted :
        formatted[i].request = formatted[j].request =>
            /\ formatted[i].type = formatted[j].type
            /\ formatted[i].args = formatted[j].args

\* where the header of argument j of args lies in the request
RECURSIVE HeaderAt(_, _)
HeaderAt(args, j) ==
    IF j = 1 THEN 2 ELSE HeaderAt(args, j - 1) + 2 + Length(args[j - 1])

\* C17: an argument of 65535 bytes is written behind the header FF FF, and a
\* call with a longer argument produces no request.
C17_Limit ==
    \A i \in DOMAIN formatted :
        LET f == formatted[i] IN
        \A j \in DOMAIN f.args :
            /\ Length(f.args[j]) = 65535 =>
                   /\ At(f.request, HeaderAt(f.args, j)) = 255
                   /\ At(f.request, HeaderAt(f.args, j) + 1) = 255
            /\ Length(f.args[j]) > 65535 => f.request = << >>

\* C12: when processRequest has ended, no peripheral it connected is still
\* connected.
C12_AllDisconnected == req.pc = "done" => req.links = {}

\* the steps of an attempt that use the peripheral
Linked == {"connect", "discoverService", "retrieveCharacteristics", "subscribe",
           "read"}

\* C13: processRequest makes at most 3 attempts and each of them uses the
\* peripheral it has found itself; it ends with the response to the first
\* bytes of the request, from the first attempt that did not fail, or with
\* the error after 3 failed attempts, and once ended makes no further step.
C13_ThreeAttempts ==
    [][/\ req.pc = "done" => req' = req
       /\ req'.attempt <= 3
       /\ req'.pc \in Linked => req'.found = req'.attempt
       /\ req'.pc = "done" =>
              /\ req'.result \in {"response", "requestFailed"}
              /\ req'.result = "requestFailed" <=> req'.failed = 3
              /\ req'.result = "response" =>
                     /\ req'.failed = req'.attempt - 1
                     /\ req'.response.attempt = req'.attempt
                     /\ req'.response.block = 0
                     /\ req'.response.bytes = req'.last]_vars

C13_Witness ==
    /\ req.pc = "done"
    /\ req.result = "response"
    /\ req.attempt = 3
    /\ req.failed = 2

\* C14: once called, processRequest ends.
C14_Terminates == (req.pc = "findPeripheral") ~> (req.pc = "done")

\* the blocks the attempt in progress has written
Written == SelectSeq(req.written, LAMBDA w : w.attempt = req.attempt)

\* C15: when an attempt has its response, it has written one block, the whole
\* request, if the request has at most 512 bytes, and otherwise as many
\* blocks as 510 goes into the length less 2, rounded up: first the extra
\* blocks, their index counting down to 1, and last the first 512 bytes of
\* the request.
C15_Blocks ==
    (req.after = "return" \/ req.result = "response") =>
        LET len == Length(req.request)
            n == Len(Written)
        IN  /\ len <= 512 => n = 1 /\ Written[1].buffer = req.request
            /\ len > 512 => 510 * (n - 1) < len - 2 /\ len - 2 <= 510 * n
            /\ n > 0
            /\ Written[n].block = 0
            /\ Written[n].buffer = Slice(req.request, 0, Min(len, 512))
            /\ \A i \in 1..(n - 1) : Written[i].block = n - i

C15_Witness ==
    /\ req.result = "response"
    /\ req.failed = 1
    /\ Length(req.request) = 1533
    /\ Len(Written) = 4

\* C30: when a signBytes made in state twoKeys, with no other call in flight,
\* has failed at its exchange, the next signBytes on the same proxy sends the
\* previous proxy key again.
C30_NotConsumed ==
    [][(/\ ret.op = "signBytes"
        /\ ret.res = "requestFailed"
        /\ ret.alone
        /\ ret.before.state = "twoKeys"
        /\ Start("signBytes")) =>
           \E x \in BagToSet(calls') :
               /\ x.op = "signBytes"
               /\ x.pc = "exchange"
               /\ Enters(x)
               /\ x.key = ret.before.previousProxyKey]_vars

\* validSignature(publicKey, signature, bytes) for the bytes that were signed:
\* the HSM signs with the key pair bound to the secret it is sent, so a
\* signature is valid under the public key returned for that same secret.
\* Both are named by their secret.
Valid(publicKey, signature) == publicKey # Absent /\ publicKey = signature

\* C21: a signature returned by a signBytes made in state loneKey, with no
\* other call in flight, is valid under the public key returned last, if one
\* has been returned.
C21_CurrentKey ==
    (/\ ret.op = "signBytes"
     /\ ret.res = "ok"
     /\ ret.alone
     /\ ret.before.state = "loneKey"
     /\ sig.pub # Absent) => Valid(sig.pub, ret.key)

\* C22: the first signature returned after a rotateKeys has returned is valid
\* under the public key returned before that one and not under the new one;
\* every later signature is valid under the new one and not under the other.
C22_AcrossRotation ==
    (ret.op = "signBytes" /\ ret.res = "ok" /\ sig.old # Absent) =>
        /\ sig.count = 1 =>
               (Valid(sig.old, sig.last) /\ ~Valid(sig.pub, sig.last))
        /\ sig.count = 2 =>
               (Valid(sig.pub, sig.last) /\ ~Valid(sig.old, sig.last))

\* C27: a call that loads and finds no record creates one with a new tag, in
\* state keyless, and stores it before anything is checked or sent; when that
\* store returns the record is on disk, and a rotateKeys or signBytes is then
\* refused without a request being sent.
C27_FirstUse ==
    [][/\ \A c \in InFlight :
              (c.pc = "loading" /\ disk = NoRecord /\ LoadOk(c)) =>
                  /\ nextTag' = nextTag + 1
                  /\ \E x \in BagToSet(calls') :
                         /\ Enters(x)
                         /\ x.op = c.op
                         /\ x.pc = "bootstrap"
                         /\ x.content = FreshRecord(nextTag')
                  /\ NoneSent
                  /\ ret' = NoReturn
       /\ \A c \in InFlight :
              (c.pc = "bootstrap" /\ BootstrapOk(c)) =>
                  /\ disk' = c.content
                  /\ Bootstrapped(disk')
                  /\ c.op \in {"rotateKeys", "signBytes"} =>
                         /\ NoneSent
                         /\ ret'.op = c.op
                         /\ ret'.res # "ok"]_vars

\* C28: digestBytes and validSignature send their request in every lifecycle
\* state, also when no configuration is loaded, and neither their call nor
\* their return, with a response or a failure, changes the record on disk,
\* the configuration in memory or the controller.
C28_Stateless ==
    [][/\ \A op \in Stateless :
              Start(op) =>
                  /\ \E x \in BagToSet(calls') :
                         Enters(x) /\ x.op = op /\ x.pc = "exchange"
                  /\ UNCHANGED <<disk, configuration, controller>>
       /\ \A c \in InFlight :
              (c.op \in Stateless /\ Leaves(c)) =>
                  /\ ret'.op = c.op
                  /\ ret'.res \in {"ok", "requestFailed"}
                  /\ UNCHANGED <<disk, configuration, controller>>]_vars

C28_Witness ==
    /\ ret.op = "validSignature"
    /\ ret.res = "ok"
    /\ controller = "twoKeys"
    /\ configuration.previousProxyKey # Absent
    /\ disk.state = "twoKeys"

\* the bytes of w.buffer from position `skip` on are the bytes of the request
\* from `from` up to `to`
Carries(w, skip, from, to) ==
    /\ Length(w.buffer) = skip + to - from
    /\ \A i \in 0..(to - from - 1) :
           At(w.buffer, skip + i) = At(req.request, from + i)

\* the bytes written with the buffers ws, headers left out
RECURSIVE Payload(_)
Payload(ws) ==
    IF ws = << >> THEN 0
    ELSE Length(Head(ws).buffer) - (IF Head(ws).block > 0 THEN 2 ELSE 0)
             + Payload(Tail(ws))

\* C23: the block just written is, for the first block, the first 512 bytes
\* of the request (all of them if it has fewer) without header, and for extra
\* block k the bytes 00 and k mod 256 followed by the bytes of the request
\* from 510 k + 2 up to 510 (k + 1) + 2 or its end; no write has more than 512
\* bytes; and the blocks of an attempt that has its response carry as many
\* bytes as the request has, no two of them having the same index.
C23_BlockBytes ==
    /\ req.pc = "read" =>
           LET w == req.written[Len(req.written)]
               len == Length(req.request)
               k == w.block
           IN  /\ Length(w.buffer) <= 512
               /\ k = 0 => Carries(w, 0, 0, Min(len, 512))
               /\ k > 0 =>
                      /\ At(w.buffer, 0) = 0
                      /\ At(w.buffer, 1) = k % 256
                      /\ Carries(w, 2, 510 * k + 2, Min(len, 510 * (k + 1) + 2))
    /\ req.after = "return" =>
           /\ Payload(Written) = Length(req.request)
           /\ \A i, j \in DOMAIN Written :
                  Written[i].block = Written[j].block => i = j

C23_Witness ==
    /\ req.after = "return"
    /\ Length(req.request) = 1533
    /\ Len(Written) = 4
    /\ Length(Written[1].buffer) = 3

C25_StatusByte ==
    [][/\ req'.heard = req.heard + 1 =>
              IF Length(req'.last) = 1 /\ At(req'.last, 0) > 1
              THEN /\ req'.failed = req.failed + 1
                   /\ req'.after # "return"
                   /\ req'.result # "response"
              ELSE /\ req'.failed = req.failed
                   /\ req.block > 0 =>
                          (req'.pc = "subscribe" /\ req'.block = req.block - 1)
                   /\ req.block <= 0 =>
                          (req'.after = "return" /\ req'.response.bytes = req'.last)
       /\ req'.result = "response" =>
              /\ req'.response.bytes = req.response.bytes
              /\ ~(/\ Length(req'.response.bytes) = 1
                   /\ At(req'.response.bytes, 0) > 1)]_vars

C25_Witness ==
    /\ req.result = "response"
    /\ req.response.bytes = Fill(1, 1)
    /\ req.failed = 1
    /\ req.written[1].attempt = 1
    /\ req.written[1].block = 0

\* what a reader of the request finds from `offset` on: `count` times a length
\* of two bytes, high byte first, and that many bytes
RECURSIVE ParseArgs(_, _, _)
ParseArgs(request, offset, count) ==
    IF count = 0 THEN << >>
    ELSE LET length == 256 * At(request, offset) + At(request, offset + 1)
         IN  <<Slice(request, offset + 2, offset + 2 + length)>>
                 \o ParseArgs(request, offset + 2 + length, count - 1)

\* the request read back: the op, and the arguments the second byte counts
Parse(request) ==
    [op |-> At(request, 0), args |-> ParseArgs(request, 2, At(request, 1))]

\* C26: a request formatted from at most 255 arguments of at most 65535
\* bytes each reads back as the code of its type and its arguments, each
\* argument behind its length in two bytes, high byte first; it ends with the
\* last argument, and an argument without bytes is the two bytes 00 00.
C26_RoundTrip ==
    \A i \in DOMAIN formatted :
        LET f == formatted[i] IN
        (Len(f.args) <= 255 /\ \A j \in DOMAIN f.args : Length(f.args[j]) <= 65535) =>
            /\ Parse(f.request).op = TypeOf(f.type)
            /\ Parse(f.request).op \in 1..6
            /\ At(f.request, 1) = Len(f.args)
            /\ \A j \in DOMAIN f.args :
                   256 * At(f.request, HeaderAt(f.args, j))
                       + At(f.request, HeaderAt(f.args, j) + 1) = Length(f.args[j])
            /\ Parse(f.request).args = f.args
            /\ Length(f.request) = HeaderAt(f.args, Len(f.args) + 1)
            /\ \A j \in DOMAIN f.args :
                   f.args[j] = << >> =>
                       /\ At(f.request, HeaderAt(f.args, j)) = 0
                       /\ At(f.request, HeaderAt(f.args, j) + 1) = 0
                       /\ HeaderAt(f.args, j + 1) = HeaderAt(f.args, j) + 2

C26_Witness ==
    /\ pending = << >>
    /\ formatted[1].args = <<Fill(0, 65535), Fill(0, 0)>>
    /\ formatted[1].type = "validSignature"
    /\ formatted[2].args = <<Fill(1, 1)>>

\* a signBytes request with secret k, on its way to the HSM
ApiSigning(k) == ApiCalled("signBytes", "exchange", k)

\* C29: in the singleton, once an eraseKeys has returned true and until
\* generateKeys is called, a signBytes fails with 'No keys exist.' and no
\* signBytes request is sent.
C29_ApiForgets ==
    [][api.erased =>
          /\ \A k \in Keys :
                 CopiesIn(ApiSigning(k), api'.calls) <= CopiesIn(ApiSigning(k), api.calls)
          /\ (api.ready /\ ApiCall("signBytes")) => api'.ret.res = "noKeys"]_vars

\* the fields of a configuration that storeConfiguration persists
KeyFields(cfg) == <<cfg.state, cfg.proxyKey, cfg.previousProxyKey>>

\* C31: whenever no call is in flight on a proxy that has loaded its
\* configuration (the controller is made), the state, the proxy key and the
\* previous proxy key in memory are those of the record on disk
C31_MemoryIsRecord ==
    (calls = EmptyBag /\ configuration # NoRecord /\ controller # "undefined")
        => KeyFields(configuration) = KeyFields(disk)

\* C32: generateKeys, rotateKeys and signBytes never return having stored
\* their transition when the response of the HSM was a one-byte status
C32_NoCommitOnStatus ==
    (ret.op \in KeyOps /\ ret.reply \in StatusBytes) => ret.res # "ok"

\* eraseKeys returns whether the first byte of the response is not zero
Succeeded(r) == r.reply # "0x00"

\* C33: an eraseKeys that returns false, running alone, leaves the record on
\* disk as it was when the call was made and the configuration in memory
\* as the record
C33_FalseChangesNothing ==
    (ret.op = "eraseKeys" /\ ret.res = "ok" /\ ~Succeeded(ret) /\ ret.alone)
        => (disk = ret.before /\ (ret.before # NoRecord => configuration # NoRecord))

\* C34: on first use without failures, overlapping or not, the calls of getTag
\* return one tag, and once no call is in flight that tag is the tag of the
\* record on disk
C34_SameTag ==
    /\ Cardinality(tags) <= 1
    /\ (calls = EmptyBag /\ tags # {}) => tags = {disk.tag}

\* C35: a getTag that returns alone returns the tag of the record on disk
C35_TagIsPersisted ==
    (ret.op = "getTag" /\ ret.res = "ok" /\ ret.alone) => ret.tag = disk.tag

\* C36: the scan a findPeripheral has started is stopped only in the step
\* that ends this findPeripheral: its own discovery or its own timeout
C36_OwnStop ==
    [][(req.scan # 0 /\ req'.scan = 0)
          => (req.pc = "findPeripheral" /\ req'.pc # "findPeripheral")]_vars

\* C37: disconnect is called only on the peripheral found in the attempt
\* that is running
C37_OwnPeripheral ==
    \A i \in 1..Len(req.released) : req.released[i].found = req.released[i].attempt

\* C39: in an attempt that has found and connected its peripheral,
\* disconnect is called at most once
C39_OneDisconnect ==
    \A i, j \in 1..Len(req.released) :
        (i < j /\ req.released[i].found = req.released[i].attempt)
            => req.released[i].attempt # req.released[j].attempt

\* C38: the extra block written last has a second header byte that no extra
\* block written before it in the same attempt has, for a request whose
\* arguments are within the limits
C38_DistinctIndex ==
    LET n == Len(req.written) IN
    \A i \in 1..(n - 1) :
        (/\ req.written[i].attempt = req.written[n].attempt
         /\ req.written[i].block > 0
         /\ req.written[n].block > 0)
            => At(req.written[i].buffer, 1) # At(req.written[n].buffer, 1)
====
